---------------------------- MODULE Spec2Model ----------------------------
(***************************************************************************)
(* Model of hephaistos' pipeline module (python/hephaistos/pipeline.py):   *)
(* the PipelineScheduler with its update worker, process worker and the    *)
(* GPU executing the submissions schedule() builds.                        *)
(*                                                                         *)
(* Threads: the caller (schedule / wait), the update worker (_update), the *)
(* process worker (_process) and the GPU.  Every blocking call is an       *)
(* action guard; code between two blocking calls of one thread is a step.  *)
(*                                                                         *)
(* _CounterWorkerThread, DynamicTaskScheduler and Pipeline are also taken  *)
(* on their own, each with its own variable and specification              *)
(* (WorkerSpec, DynamicSpec, PipelineSpec) further down, as are the        *)
(* bounded update queue (QueueSpec), a PipelineStage (StageSpec) and the   *)
(* lock around PipelineScheduler.schedule (LockSpec).                      *)
(***************************************************************************)
EXTENDS Integers, Sequences, FiniteSets, TLC

(* Bound on the number of tasks accepted over a run (totalTasks). *)
MaxTasks == 3

(* User arguments: None when none was supplied. *)
None == <<"None", 0>>
(* Pipelines that exist; a scheduler holds p1 alone or {p1, p2} by name. *)
Pipelines == {"p1", "p2"}
PipeNames == {"", "p1", "p2"}
(* The schedulers constructed: <<pipeline is a dict, queueSize, processFn  *)
(* given>>; queueSize 0 is unbounded.                                      *)
Configs == {<<FALSE, 0, FALSE>>, <<FALSE, 0, TRUE>>,
            <<FALSE, 1, FALSE>>, <<FALSE, 1, TRUE>>,
            <<TRUE, 0, FALSE>>}

(* A parameter buffer holds a params dictionary; Unset before the first    *)
(* write, Torn after an update that raised part-way.                       *)
Unset == <<"unset", 0>>
Torn == <<"torn", 0>>

VARIABLES
    (* PipelineScheduler.__init__ parameters *)
    isDict,             \* pipeline is a dict of named pipelines
    queueSize,          \* _queueSize
    hasProcessFn,       \* processFn is not None
    (* PipelineScheduler state *)
    destroyed,          \* _destroyed
    totalTasks,         \* _totalTasks
    updateQueue,        \* _updateQueue: <<pipeline, params>> entries
    userArgsQueue,      \* _userArgsQueue
    pipelineTimeline,   \* _pipelineTimeline.value
    updateTimeline,     \* _updateTimeline.value
    processTimeline,    \* _processTimeline.value
    updateWorker,       \* _CounterWorkerThread(self._update)
    processWorker,      \* _CounterWorkerThread(self._process)
    (* the thread calling schedule() / wait() *)
    caller,
    (* GPU: steps submitted and not finished *)
    gpuSteps,
    (* Pipeline stages: working copy and the two device configurations *)
    local,
    device,
    (* history: what each accepted task was given, until it completed *)
    tasks,
    (* the classes examined on their own, each under its own specification *)
    cwt,                \* a _CounterWorkerThread, statement by statement
    dts,                \* a DynamicTaskScheduler with its DynamicTasks
    pl,                 \* a Pipeline under construction / setParams
    sq,                 \* schedule() calls on a bounded update queue
    st,                 \* a PipelineStage: working copy and device slots
    lk                  \* two threads in DynamicTaskScheduler._schedule

schedulerVars ==
    <<isDict, queueSize, hasProcessFn, destroyed, totalTasks, updateQueue,
      userArgsQueue, pipelineTimeline, updateTimeline, processTimeline,
      updateWorker, processWorker, caller, gpuSteps, local, device, tasks>>
units == <<cwt, dts, pl, sq, st, lk>>
vars == <<schedulerVars, units>>

config == <<isDict, queueSize, hasProcessFn>>

----------------------------------------------------------------------------
(* A task as handed to schedule(): its shape (pipeline.py:570-575, or      *)
(* "invalid" for anything else) and the parts the shape has.               *)
MkTask(shape, name, params, args) ==
    [shape |-> shape, name |-> name, params |-> params, args |-> args]

unpackTask_Mutant(task) ==
    CASE task.shape \in {"dict", "dict_args"} ->
            [ok |-> TRUE, name |-> "", params |-> task.params, args |-> None]
      [] task.shape = "name_dict" ->
            [ok |-> TRUE, name |-> task.name, params |-> task.params, args |-> None]
      [] task.shape = "name_dict_args" ->
            [ok |-> TRUE, name |-> task.name, params |-> task.params, args |-> task.args]
      [] OTHER ->
            [ok |-> FALSE, name |-> "", params |-> Unset, args |-> None]

(* _unpackTask: (pipeName, params, args); ok = FALSE for the ValueError. *)
unpackTask(task) ==
    CASE task.shape = "dict" ->
            [ok |-> TRUE, name |-> "", params |-> task.params, args |-> None]
      [] task.shape = "name_dict" ->
            [ok |-> TRUE, name |-> task.name, params |-> task.params, args |-> None]
      [] task.shape = "dict_args" ->
            [ok |-> TRUE, name |-> "", params |-> task.params, args |-> task.args]
      [] task.shape = "name_dict_args" ->
            [ok |-> TRUE, name |-> task.name, params |-> task.params, args |-> task.args]
      [] OTHER ->
            [ok |-> FALSE, name |-> "", params |-> Unset, args |-> None]

(* The tasks a caller may offer next.  Params and user arguments are       *)
(* opaque to the scheduler: every offered task carries a params dictionary *)
(* and a user object of its own, named after the index k the task gets if  *)
(* it is accepted.                                                         *)
taskParams(k) == <<"params", k>>
userArg(k) == <<"arg", k>>

(* The pipeline names offered with task k.  The named pipelines being      *)
(* interchangeable, the first task names "p1".                             *)
TaskNames(k) == IF k = 0 THEN {"p1"} ELSE PipeNames \ {""}

TaskInputs(k) ==
    {MkTask("dict", "", taskParams(k), None)}
    \cup {MkTask("name_dict", nm, taskParams(k), None) : nm \in TaskNames(k)}
    \cup {MkTask("dict_args", "", taskParams(k), userArg(k))}
    \cup {MkTask("name_dict_args", nm, taskParams(k), userArg(k)) : nm \in TaskNames(k)}
    \cup {MkTask("invalid", "", Unset, None)}

resolvePipeline_IgnoresName(pipeName) ==
    IF ~isDict
    THEN "p1"
    ELSE IF pipeName \notin Pipelines THEN "skip" ELSE pipeName

resolvePipeline_DefaultsToFirst(pipeName) ==
    IF ~isDict
    THEN IF pipeName # "" THEN "skip" ELSE "p1"
    ELSE IF pipeName \notin Pipelines THEN "p1" ELSE pipeName

(* schedule(): "fetch correct pipeline"; "skip" for the warning + continue. *)
resolvePipeline(pipeName) ==
    IF ~isDict
    THEN IF pipeName # "" THEN "skip" ELSE "p1"
    ELSE IF pipeName \notin Pipelines THEN "skip" ELSE pipeName

(* Queue(maxsize).put would block: maxsize > 0 and the queue holds maxsize. *)
queueFull == queueSize > 0 /\ Len(updateQueue) >= queueSize

----------------------------------------------------------------------------
(* The waits schedule() issues in front of the subroutine of task n. *)
pipelineWait_Mutant(n) == IF n > 0 THEN n - 1 ELSE 0
pipelineWait(n) == n
updateWait_Mutant(n) == n
updateWait(n) == n + 1
processWaitNeeded_Mutant(n) == FALSE
processWaitNeeded(n) == hasProcessFn /\ n >= 2
processWait_Mutant(n) == n - 2
processWait(n) == n - 1

(* One step of the submission under construction: the waits issued since   *)
(* the previous step and the subroutine pipeline.getSubroutine(i).         *)
builderStep(n, pipeline, start, pos) ==
    [task |-> n,
     start |-> start,
     pos |-> pos,
     waitPipeline |-> pipelineWait(n),
     waitUpdate |-> updateWait(n),
     waitProcess |-> IF processWaitNeeded(n) THEN processWait(n) ELSE 0,
     pipeline |-> pipeline,
     config |-> n % 2,
     running |-> FALSE]

(* _CounterWorkerThread.run(n): increases the loop target. *)
workerRun(w, n) == [w EXCEPT !.target = @ + n]

(* No processFn call in progress. *)
NoCall == [config |-> 0, batch |-> 0, args |-> None]

(* History of a completed task. *)
Done == [name |-> "", pipeline |-> "", params |-> Unset, args |-> None]
forget(ts, n) == [ts EXCEPT ![n + 1] = Done]

(* The calling thread outside any call: "idle", "waited" right after a     *)
(* wait() returned, "timedout" right after a schedule() whose put timed    *)
(* out, "rejected" right after a schedule() on the destroyed scheduler.    *)
(* skipped: the schedule() in progress skipped a task.                     *)
OutsideCall == {"idle", "waited", "timedout", "rejected"}
callerIdle(pc) == [pc |-> pc, n |-> 0, builder |-> <<>>, timeout |-> FALSE,
                   skipped |-> FALSE]

(* A unit that is not constructed under the specification at hand. *)
Absent == [pc |-> "absent"]

SchedulerInit ==
    /\ \E c \in Configs :
        /\ isDict = c[1]
        /\ queueSize = c[2]
        /\ hasProcessFn = c[3]
    /\ destroyed = FALSE
    /\ totalTasks = 0
    /\ updateQueue = <<>>
    /\ userArgsQueue = <<>>
    /\ pipelineTimeline = 0
    /\ updateTimeline = 0
    /\ processTimeline = 0
    /\ updateWorker = [target |-> 0, counter |-> 0, pc |-> "idle", pipeline |-> "p1"]
    /\ processWorker = [target |-> 0, counter |-> 0, pc |-> "idle",
                        call |-> NoCall, calls |-> 0, raised |-> FALSE]
    /\ caller = callerIdle("idle")
    /\ gpuSteps = {}
    /\ local = [p \in Pipelines |-> Unset]
    /\ device = [p \in Pipelines |-> [i \in {0, 1} |-> Unset]]
    /\ tasks = <<>>

Init ==
    /\ SchedulerInit
    /\ cwt = Absent
    /\ dts = Absent
    /\ pl = Absent
    /\ sq = Absent
    /\ st = Absent
    /\ lk = Absent

----------------------------------------------------------------------------
(* PipelineScheduler.schedule *)

scheduleAllowed_Mutant == TRUE

(* "if self.destroyed: raise RuntimeError" *)
scheduleAllowed == ~destroyed

(* schedule(tasks, timeout=...) entered: the RuntimeError on a destroyed   *)
(* scheduler, else n = 0, builder = None.                                  *)
ScheduleBegin(timeout) ==
    /\ caller.pc \in OutsideCall
    /\ timeout => queueSize > 0
    /\ caller' = IF scheduleAllowed
                 THEN [pc |-> "schedule", n |-> 0, builder |-> <<>>,
                       timeout |-> timeout, skipped |-> FALSE]
                 ELSE callerIdle("rejected")
    /\ UNCHANGED <<config, destroyed, totalTasks, updateQueue, userArgsQueue,
                   pipelineTimeline, updateTimeline, processTimeline,
                   updateWorker, processWorker, gpuSteps, local, device,
                   tasks>>
    /\ UNCHANGED units

scheduleTail_CountsFailedPut(pc) ==
    LET n == caller.n + (IF pc = "timedout" THEN 1 ELSE 0)
    IN
    /\ caller' = callerIdle(pc)
    /\ IF n = 0
       THEN UNCHANGED <<gpuSteps, updateWorker, processWorker>>
       ELSE /\ gpuSteps' = gpuSteps \cup {caller.builder[k] : k \in 1..Len(caller.builder)}
            /\ updateWorker' = workerRun(updateWorker, n)
            /\ processWorker' = IF hasProcessFn
                                THEN workerRun(processWorker, n)
                                ELSE processWorker

(* The code after the loop: return (0, None), or Submit() and run(n) on    *)
(* both workers.                                                           *)
scheduleTail(pc) ==
    /\ caller' = callerIdle(pc)
    /\ IF caller.n = 0
       THEN UNCHANGED <<gpuSteps, updateWorker, processWorker>>
       ELSE /\ gpuSteps' = gpuSteps \cup {caller.builder[k] : k \in 1..Len(caller.builder)}
            /\ updateWorker' = workerRun(updateWorker, caller.n)
            /\ processWorker' = IF hasProcessFn
                                THEN workerRun(processWorker, caller.n)
                                ELSE processWorker

(* self._totalTasks += 1 *)
nextTotal(total) == total + 1

(* One iteration of "for task in tasks" up to the put: the task cannot be  *)
(* unpacked (ValueError leaves schedule), is skipped with a warning, ends  *)
(* the loop for the capacity check, or is enlisted.                        *)
ScheduleTask(task) ==
    /\ caller.pc = "schedule"
    /\ LET u == unpackTask(task)
           pipeline == resolvePipeline(u.name)
           start == IF caller.builder = <<>> THEN totalTasks
                    ELSE caller.builder[1].start
       IN
       IF ~u.ok
       THEN /\ caller' = callerIdle("idle")
            /\ UNCHANGED <<totalTasks, updateQueue, userArgsQueue, gpuSteps,
                           updateWorker, processWorker, tasks>>
       ELSE IF pipeline = "skip"
       THEN /\ caller' = [caller EXCEPT !.skipped = TRUE]
            /\ UNCHANGED <<totalTasks, updateQueue, userArgsQueue,
                           gpuSteps, updateWorker, processWorker, tasks>>
       ELSE IF queueSize > 0 /\ caller.n > queueSize
       THEN /\ scheduleTail("idle")
            /\ UNCHANGED <<totalTasks, updateQueue, userArgsQueue, tasks>>
       ELSE /\ ~queueFull
            /\ totalTasks < MaxTasks
            /\ updateQueue' = Append(updateQueue, <<pipeline, u.params>>)
            /\ userArgsQueue' = IF hasProcessFn
                                THEN Append(userArgsQueue, u.args)
                                ELSE userArgsQueue
            /\ caller' = [caller EXCEPT
                  !.builder = Append(@, builderStep(totalTasks, pipeline,
                                                    start, Len(@))),
                  !.n = @ + 1]
            /\ totalTasks' = nextTotal(totalTasks)
            /\ tasks' = Append(tasks, [name |-> task.name,
                                       pipeline |-> pipeline,
                                       params |-> task.params,
                                       args |-> task.args])
            /\ UNCHANGED <<gpuSteps, updateWorker, processWorker>>
    /\ UNCHANGED <<config, destroyed, pipelineTimeline, updateTimeline,
                   processTimeline, local, device>>
    /\ UNCHANGED units

(* The put of a valid task timed out on the full queue: break. *)
ScheduleTimeout ==
    /\ caller.pc = "schedule"
    /\ caller.timeout
    /\ ~(queueSize > 0 /\ caller.n > queueSize)
    /\ queueFull
    /\ scheduleTail("timedout")
    /\ UNCHANGED <<config, destroyed, totalTasks, updateQueue, userArgsQueue,
                   pipelineTimeline, updateTimeline, processTimeline,
                   local, device, tasks>>
    /\ UNCHANGED units

(* The iterable is exhausted. *)
ScheduleEnd ==
    /\ caller.pc = "schedule"
    /\ scheduleTail("idle")
    /\ UNCHANGED <<config, destroyed, totalTasks, updateQueue, userArgsQueue,
                   pipelineTimeline, updateTimeline, processTimeline,
                   local, device, tasks>>
    /\ UNCHANGED units

(* The timeline wait() observes: the process timeline if there is one. *)
completionTimeline == IF hasProcessFn THEN processTimeline ELSE pipelineTimeline

waitDone_Mutant(task) == pipelineTimeline >= task

(* Timeline.wait(task) on the completion timeline returns. *)
waitDone(task) == completionTimeline >= task

(* PipelineScheduler.wait() with task = None returns: at once on a         *)
(* destroyed scheduler, else when Timeline.wait(totalTasks) does.  The     *)
(* caller blocks in between, so the call is its return.                    *)
Wait ==
    /\ caller.pc \in OutsideCall \ {"waited"}
    /\ destroyed \/ waitDone(totalTasks)
    /\ caller' = callerIdle("waited")
    /\ UNCHANGED <<config, destroyed, totalTasks, updateQueue, userArgsQueue,
                   pipelineTimeline, updateTimeline, processTimeline,
                   updateWorker, processWorker, gpuSteps, local, device,
                   tasks>>
    /\ UNCHANGED units

(* PipelineScheduler.tasksFinished *)
tasksFinished ==
    IF destroyed THEN 0
    ELSE IF ~hasProcessFn THEN pipelineTimeline
    ELSE processWorker.counter

destroyWaits_WrongTimeline == pipelineTimeline >= totalTasks
destroyWaits_NoWait == TRUE

(* destroy(): "wait for tasks to finish", self.wait() *)
destroyWaits == waitDone(totalTasks)

(* destroy() up to the return of its self.wait(). *)
DestroyBegin ==
    /\ caller.pc \in OutsideCall
    /\ ~destroyed
    /\ destroyWaits
    /\ caller' = callerIdle("destroying")
    /\ UNCHANGED <<config, destroyed, totalTasks, updateQueue, userArgsQueue,
                   pipelineTimeline, updateTimeline, processTimeline,
                   updateWorker, processWorker, gpuSteps, local, device,
                   tasks>>
    /\ UNCHANGED units

(* _CounterWorkerThread.stop(): the thread has left its loop. *)
workerStop(w) == [w EXCEPT !.pc = "stopped"]

(* The rest of destroy(): stop() joins each worker thread, which leaves    *)
(* its loop at the next check of _isStopping; then the timelines are       *)
(* destroyed and _destroyed is set.                                        *)
DestroyEnd ==
    /\ caller.pc = "destroying"
    /\ updateWorker.pc \in {"idle", "dead"}
    /\ processWorker.pc = "idle"
    /\ updateWorker' = workerStop(updateWorker)
    /\ processWorker' = IF hasProcessFn THEN workerStop(processWorker)
                                        ELSE processWorker
    /\ destroyed' = TRUE
    /\ caller' = callerIdle("idle")
    /\ UNCHANGED <<config, totalTasks, updateQueue, userArgsQueue,
                   pipelineTimeline, updateTimeline, processTimeline,
                   gpuSteps, local, device, tasks>>
    /\ UNCHANGED units

----------------------------------------------------------------------------
(* Update worker: _CounterWorkerThread._loop running PipelineScheduler._update *)

(* Pipeline.setParams of the task's params on the pipeline's working copy. *)
setParams(loc, pipeline, values) == [loc EXCEPT ![pipeline] = values]

(* _update(n), up to the wait: the queue get and pipeline.setParams.  An   *)
(* exception of either leaves _update and ends the worker thread.          *)
UpdateFetch ==
    /\ updateWorker.pc = "idle"
    /\ updateWorker.counter < updateWorker.target
    /\ \/ /\ updateQueue # <<>>
          /\ updateQueue' = Tail(updateQueue)
          /\ \/ /\ local' = setParams(local, Head(updateQueue)[1], Head(updateQueue)[2])
                /\ updateWorker' = [updateWorker EXCEPT !.pc = "fetched",
                                       !.pipeline = Head(updateQueue)[1]]
             \/ /\ updateWorker' = [updateWorker EXCEPT !.pc = "dead"]
                /\ UNCHANGED local
       \/ /\ updateQueue = <<>>
          /\ updateWorker' = [updateWorker EXCEPT !.pc = "dead"]
          /\ UNCHANGED <<updateQueue, local>>
    /\ UNCHANGED <<config, destroyed, totalTasks, userArgsQueue, pipelineTimeline,
                   updateTimeline, processTimeline, processWorker, caller,
                   gpuSteps, device, tasks>>
    /\ UNCHANGED units

(* "wait for the i-th config to be safe to update" *)
updateMayWrite_Unguarded(n) == TRUE
updateMayWrite_Mutant(n) == n >= 2 => pipelineTimeline >= n - 2
updateMayWrite(n) == n >= 2 => pipelineTimeline >= n - 1

(* The wait is over: pipeline.update(n % 2) starts writing the device. *)
UpdateBegin ==
    /\ updateWorker.pc = "fetched"
    /\ updateMayWrite(updateWorker.counter)
    /\ updateWorker' = [updateWorker EXCEPT !.pc = "writing"]
    /\ UNCHANGED <<config, destroyed, totalTasks, updateQueue, userArgsQueue,
                   pipelineTimeline, updateTimeline, processTimeline,
                   processWorker, caller, gpuSteps, local, device, tasks>>
    /\ UNCHANGED units

(* PipelineStage.update(i): memmove of the working copy into config i. *)
stageUpdate(dev, loc, pipeline, i) == [dev EXCEPT ![pipeline][i] = loc[pipeline]]

(* pipeline.update raised: _finishParams or the copy of some stage did not *)
(* happen, the config is not the working copy.                             *)
stageUpdateRaised(dev, pipeline, i) == [dev EXCEPT ![pipeline][i] = Torn]

(* What _update does after pipeline.update returned or raised. *)
updateAdvance(n) == n + 1

(* pipeline.update(n % 2) returns or raises; then the timeline advances    *)
(* and the worker loop counts the iteration.                               *)
UpdateEnd ==
    /\ updateWorker.pc = "writing"
    /\ LET n == updateWorker.counter
           p == updateWorker.pipeline
       IN /\ \/ device' = stageUpdate(device, local, p, n % 2)
             \/ device' = stageUpdateRaised(device, p, n % 2)
          /\ updateTimeline' = updateAdvance(n)
          /\ updateWorker' = [updateWorker EXCEPT !.pc = "idle", !.counter = n + 1]
    /\ UNCHANGED <<config, destroyed, totalTasks, updateQueue, userArgsQueue,
                   pipelineTimeline, processTimeline, processWorker, caller,
                   gpuSteps, local, tasks>>
    /\ UNCHANGED units

----------------------------------------------------------------------------
(* Process worker: _CounterWorkerThread._loop running PipelineScheduler._process *)

processMayRun_Mutant(n) == pipelineTimeline >= n

(* self._pipelineTimeline.wait(n + 1) *)
processMayRun(n) == pipelineTimeline >= n + 1

(* self._processFn(n % 2, n, args) *)
processCall(n, args) == [config |-> n % 2, batch |-> n, args |-> args]

(* _process(n): the user arguments are taken from the queue, the wait for  *)
(* the GPU is over and processFn is called.  (Nothing else reads the args  *)
(* queue, so taking from it earlier than the wait ends shows nowhere.)     *)
ProcessBegin ==
    /\ hasProcessFn
    /\ processWorker.pc = "idle"
    /\ processWorker.counter < processWorker.target
    /\ userArgsQueue # <<>>
    /\ processMayRun(processWorker.counter)
    /\ userArgsQueue' = Tail(userArgsQueue)
    /\ processWorker' = [processWorker EXCEPT !.pc = "running",
            !.call = processCall(processWorker.counter, Head(userArgsQueue)),
            !.calls = @ + 1]
    /\ UNCHANGED <<config, destroyed, totalTasks, updateQueue, pipelineTimeline,
                   updateTimeline, processTimeline, updateWorker, caller,
                   gpuSteps, local, device, tasks>>
    /\ UNCHANGED units

(* _process after processFn returned (raised = FALSE) or raised. *)
processAdvance_Mutant(n, raised) == IF raised THEN processTimeline ELSE n + 1
processAdvance(n, raised) == n + 1

(* processFn returns or raises and _process advances the timeline. *)
ProcessEnd(raised) ==
    /\ processWorker.pc = "running"
    /\ processTimeline' = processAdvance(processWorker.counter, raised)
    /\ processWorker' = [processWorker EXCEPT !.pc = "returned",
                                              !.call = NoCall,
                                              !.raised = @ \/ raised]
    /\ tasks' = forget(tasks, processWorker.counter)
    /\ UNCHANGED <<config, destroyed, totalTasks, updateQueue, userArgsQueue,
                   pipelineTimeline, updateTimeline, updateWorker, caller,
                   gpuSteps, local, device>>
    /\ UNCHANGED units

(* Back in _loop after self._fn returned: self._counter += 1.  The thread  *)
(* calling wait() and tasksFinished runs meanwhile.                        *)
ProcessCount ==
    /\ processWorker.pc = "returned"
    /\ processWorker' = [processWorker EXCEPT !.pc = "idle", !.counter = @ + 1]
    /\ UNCHANGED <<config, destroyed, totalTasks, updateQueue, userArgsQueue,
                   pipelineTimeline, updateTimeline, processTimeline,
                   updateWorker, caller, gpuSteps, local, device, tasks>>
    /\ UNCHANGED units

----------------------------------------------------------------------------
(* The GPU executing submitted sequences: a step starts once the previous  *)
(* step of its sequence finished and every timeline it waits for reached   *)
(* the value; finishing it sets the sequence's timeline.                   *)

stepReady(s) ==
    /\ ~s.running
    /\ \A t \in gpuSteps : t.start = s.start => t.pos >= s.pos
    /\ pipelineTimeline >= s.waitPipeline
    /\ updateTimeline >= s.waitUpdate
    /\ processTimeline >= s.waitProcess

GpuStart(s) ==
    /\ s \in gpuSteps
    /\ stepReady(s)
    /\ gpuSteps' = (gpuSteps \ {s}) \cup {[s EXCEPT !.running = TRUE]}
    /\ UNCHANGED <<config, destroyed, totalTasks, updateQueue, userArgsQueue,
                   pipelineTimeline, updateTimeline, processTimeline,
                   updateWorker, processWorker, caller, local, device, tasks>>
    /\ UNCHANGED units

GpuFinish(s) ==
    /\ s \in gpuSteps
    /\ s.running
    /\ gpuSteps' = gpuSteps \ {s}
    /\ pipelineTimeline' = s.start + s.pos + 1
    /\ tasks' = IF hasProcessFn THEN tasks ELSE forget(tasks, s.task)
    /\ UNCHANGED <<config, destroyed, totalTasks, updateQueue, userArgsQueue,
                   updateTimeline, processTimeline, updateWorker,
                   processWorker, caller, local, device>>
    /\ UNCHANGED units

----------------------------------------------------------------------------
Next ==
    \/ \E timeout \in BOOLEAN : ScheduleBegin(timeout)
    \/ \E task \in TaskInputs(totalTasks) : ScheduleTask(task)
    \/ ScheduleTimeout
    \/ ScheduleEnd
    \/ Wait
    \/ UpdateFetch
    \/ UpdateBegin
    \/ UpdateEnd
    \/ ProcessBegin
    \/ \E raised \in BOOLEAN : ProcessEnd(raised)
    \/ ProcessCount
    \/ DestroyBegin
    \/ DestroyEnd
    \/ \E s \in gpuSteps : GpuStart(s)
    \/ \E s \in gpuSteps : GpuFinish(s)

Spec == Init /\ [][Next]_vars

(* The worker threads run, the GPU executes what is ready, processFn and   *)
(* pipeline.update return or raise, and a schedule() call comes to the end *)
(* of its iterable.  Whether the caller calls at all is left open.         *)
Fairness ==
    /\ WF_vars(UpdateFetch)
    /\ WF_vars(UpdateBegin)
    /\ WF_vars(UpdateEnd)
    /\ WF_vars(ProcessBegin)
    /\ WF_vars(\E raised \in BOOLEAN : ProcessEnd(raised))
    /\ WF_vars(ProcessCount)
    /\ WF_vars(\E s \in gpuSteps : GpuStart(s))
    /\ WF_vars(\E s \in gpuSteps : GpuFinish(s))
    /\ WF_vars(ScheduleEnd)
    /\ WF_vars(DestroyEnd)

(* A scheduler of one pipeline with a processFn and a queue of one. *)
InitFair == Init /\ config = <<FALSE, 1, TRUE>>

FairSpec == InitFair /\ [][Next]_vars /\ Fairness

----------------------------------------------------------------------------
(* Claims *)

gpuRunning == {s \in gpuSteps : s.running}

(* Number of processFn invocations that returned or raised. *)
processReturned ==
    processWorker.counter + (IF processWorker.pc = "returned" THEN 1 ELSE 0)

(* C1: the GPU does not execute the subroutine of task n before the update *)
(* worker has finished publishing task n's parameters: while a step of     *)
(* task n runs, the update timeline is at least n + 1 and the update       *)
(* worker has completed its iteration n.                                   *)
C1_PublishedBeforeDispatch ==
    \A s \in gpuRunning :
        /\ updateTimeline >= s.task + 1
        /\ updateWorker.counter > s.task

C1_Witness ==
    \E s \in gpuRunning : s.task >= 1 /\ s.pos = 0 /\ updateWorker.pc = "writing"

(* C2: for n >= 2 the update worker writes config n mod 2 for task n only  *)
(* after the GPU finished task n - 2.                                      *)
C2_WriteAfterGpuDone ==
    (updateWorker.pc = "writing" /\ updateWorker.counter >= 2) =>
        /\ pipelineTimeline >= updateWorker.counter - 1
        /\ \A s \in gpuSteps : s.task # updateWorker.counter - 2

C2_Witness ==
    /\ updateWorker.pc = "writing"
    /\ updateWorker.counter >= 2
    /\ gpuRunning # {}

(* C3: with a processFn, the GPU does not execute task n >= 2 before       *)
(* processFn of task n - 2 has returned.                                   *)
C3_DispatchAfterProcess ==
    hasProcessFn =>
        \A s \in gpuRunning :
            s.task >= 2 =>
                /\ processTimeline >= s.task - 1
                /\ processReturned > s.task - 2

C3_Witness ==
    /\ hasProcessFn
    /\ \E s \in gpuRunning : s.task >= 2 /\ processWorker.pc = "running"

(* C5: task n runs on the GPU only after task n - 1 finished: while a step *)
(* of task n runs the pipeline timeline has reached n, no step of an       *)
(* earlier task is unfinished and no other step runs.                      *)
C5_GpuInOrder ==
    \A s \in gpuRunning :
        /\ pipelineTimeline >= s.task
        /\ \A t \in gpuSteps \ {s} : t.task > s.task /\ ~t.running

(* Task n runs as the first step of its submission, on another pipeline    *)
(* than task n - 1 did.                                                    *)
C5_Witness ==
    \E s \in gpuRunning :
        /\ s.task >= 1
        /\ s.pos = 0
        /\ s.pipeline = "p2"
        /\ device["p1"][(s.task - 1) % 2] = taskParams(s.task - 1)

(* C4: with a processFn, pipeline.update for task n + 2 never runs while   *)
(* processFn of task n has not returned.                                   *)
C4_PublishAfterProcess ==
    (hasProcessFn /\ updateWorker.pc = "writing" /\ updateWorker.counter >= 2) =>
        processReturned > updateWorker.counter - 2

(* C6: processFn is invoked once per task in the order of the task index,  *)
(* one invocation at a time, and the invocation of task n only after the   *)
(* GPU finished task n.                                                    *)
C6_ProcessInOrder ==
    /\ processWorker.calls <= processWorker.target
    /\ processWorker.pc # "running" => processWorker.calls = processReturned
    /\ processWorker.pc = "running" =>
        /\ processWorker.calls = processWorker.counter + 1
        /\ processWorker.call.batch = processWorker.counter
        /\ pipelineTimeline >= processWorker.call.batch + 1
        /\ \A s \in gpuSteps : s.task > processWorker.call.batch

C6_Witness ==
    /\ processWorker.pc = "running"
    /\ processWorker.call.batch >= 1
    /\ gpuRunning # {}

(* C7: the processFn invocation of task n gets config n mod 2, batch n and *)
(* the user argument offered with the n-th accepted task, None if none.    *)
C7_ProcessArguments ==
    processWorker.pc = "running" =>
        LET n == processWorker.counter
        IN /\ n < Len(tasks)
           /\ processWorker.call = [config |-> n % 2, batch |-> n,
                                    args |-> tasks[n + 1].args]

C7_Witness ==
    /\ processWorker.pc = "running"
    /\ processWorker.call.batch >= 1
    /\ processWorker.call.args = userArg(processWorker.call.batch)
    /\ tasks[1].args = None

(* C8: when the completion timeline reaches n + 1, config n mod 2 of the   *)
(* pipeline of task n holds the parameters of task n (a config left torn   *)
(* by a publish that raised is not looked at).                             *)
C8_ConfigAtCompletion ==
    [][\A n \in 0..(Len(tasks) - 1) :
          (completionTimeline = n /\ completionTimeline' = n + 1
                /\ device'[tasks[n + 1].pipeline][n % 2] # Torn)
          => device'[tasks[n + 1].pipeline][n % 2] = tasks[n + 1].params]_vars

(* C9: the update worker never leaves its body for task n without the      *)
(* update timeline at n + 1.                                               *)
C9_UpdateTimelineAdvanced ==
    updateWorker.pc = "dead" => updateTimeline >= updateWorker.counter + 1

(* No worker and no GPU step can move. *)
Quiescent ==
    ~ENABLED (\/ UpdateFetch \/ UpdateBegin \/ UpdateEnd
              \/ ProcessBegin \/ (\E raised \in BOOLEAN : ProcessEnd(raised))
              \/ ProcessCount
              \/ (\E s \in gpuSteps : GpuStart(s))
              \/ (\E s \in gpuSteps : GpuFinish(s)))

(* C10: whether or not processFn raised, the process timeline counts every *)
(* finished invocation; once each submitted task went through an update    *)
(* worker that lives, the process timeline is at the number of tasks and   *)
(* wait() returns.                                                         *)
C10_RaiseDoesNotStall ==
    hasProcessFn =>
        /\ processTimeline = processReturned
        /\ (/\ caller.pc = "idle"
            /\ updateWorker.pc # "dead"
            /\ updateWorker.target = totalTasks
            /\ Quiescent)
           => (processTimeline = totalTasks /\ ENABLED Wait)

C10_Witness ==
    /\ processWorker.raised
    /\ caller.pc = "waited"
    /\ totalTasks >= 2
    /\ processTimeline = totalTasks

(* C12: when wait() returns on a scheduler that is not destroyed, every    *)
(* task scheduled before has left the GPU and, with a processFn, its       *)
(* processFn invocation has returned.                                      *)
C12_WaitObservesCompletion ==
    (caller.pc = "waited" /\ ~destroyed) =>
        /\ gpuSteps = {}
        /\ pipelineTimeline >= totalTasks
        /\ hasProcessFn =>
            /\ processWorker.pc # "running"
            /\ processWorker.calls = totalTasks
            /\ processReturned = totalTasks

C12_Witness ==
    /\ caller.pc = "waited"
    /\ ~destroyed
    /\ hasProcessFn
    /\ totalTasks >= 2

(* The sum of the n returned by the schedule calls so far: a call that     *)
(* returns n > 0 has called run(n) on the update worker, a call that       *)
(* returns 0 or raises has not.                                            *)
submittedSum == updateWorker.target

(* C13: between schedule calls totalTasks is the sum of the returned       *)
(* n_submitted.                                                            *)
C13_TotalIsSubmittedSum ==
    caller.pc \in OutsideCall => totalTasks = submittedSum

(* C14: after wait() returned, tasksFinished equals totalTasks. *)
C14_FinishedAfterWait ==
    (caller.pc = "waited" /\ ~destroyed) => tasksFinished = totalTasks

(* C15: the workers are stopped and the scheduler destroyed only when      *)
(* every scheduled task went through update, GPU and processFn.            *)
C15_DestroyDrains ==
    (destroyed \/ updateWorker.pc = "stopped" \/ processWorker.pc = "stopped") =>
        /\ gpuSteps = {}
        /\ updateQueue = <<>>
        /\ updateTimeline >= totalTasks
        /\ pipelineTimeline >= totalTasks
        /\ hasProcessFn =>
            /\ userArgsQueue = <<>>
            /\ processWorker.calls = totalTasks
            /\ processTimeline >= totalTasks

C15_Witness ==
    /\ destroyed
    /\ hasProcessFn
    /\ totalTasks >= 2
    /\ processWorker.raised

(* C16: once destroy() returned no timeline changes and no worker moves. *)
C16_NothingAfterDestroy ==
    [][destroyed => UNCHANGED <<pipelineTimeline, updateTimeline,
                                processTimeline, updateWorker,
                                processWorker>>]_vars

C16_Witness ==
    /\ destroyed
    /\ caller.pc = "waited"
    /\ totalTasks >= 1

(* C17: schedule() on the destroyed scheduler raises and leaves totalTasks, *)
(* the queues, the submissions and the workers as they were.               *)
C17_ScheduleAfterDestroy ==
    [][destroyed =>
          /\ caller'.pc # "schedule"
          /\ UNCHANGED <<totalTasks, updateQueue, userArgsQueue, gpuSteps>>
          /\ updateWorker'.target = updateWorker.target
          /\ processWorker'.target = processWorker.target]_vars

C17_Witness ==
    /\ destroyed
    /\ caller.pc = "rejected"
    /\ totalTasks >= 1
    /\ isDict

(* The step in which a schedule() call returns after a put timed out. *)
timeoutReturn == caller.pc = "schedule" /\ caller'.pc = "timedout"

(* C18: a schedule() call stopped by the put timeout submits, hands to the *)
(* workers and has counted in totalTasks exactly the n tasks it accepted   *)
(* before.                                                                 *)
C18_TimeoutSubmitsAccepted ==
    [][timeoutReturn =>
          LET n == caller.n
              submitted == gpuSteps' \ gpuSteps
          IN /\ UNCHANGED <<totalTasks, updateQueue, userArgsQueue>>
             /\ n >= 1 => caller.builder[1].start = totalTasks - n
             /\ {s.task : s \in submitted} = (totalTasks - n)..(totalTasks - 1)
             /\ \A s \in submitted :
                    /\ s.pipeline = tasks[s.task + 1].pipeline
                    /\ s.config = s.task % 2
             /\ updateWorker'.target = updateWorker.target + n
             /\ hasProcessFn => processWorker'.target = processWorker.target + n]_vars

C18_Witness ==
    /\ caller.pc = "timedout"
    /\ Len(updateQueue) = queueSize
    /\ updateWorker.target = totalTasks
    /\ \E s \in gpuSteps : s.task = totalTasks - 1 /\ s.pos = 0

(* The scheduler holds a pipeline of that name ("" where none is named). *)
Held(name) == IF isDict THEN name \in Pipelines ELSE name = ""

(* Every task that got an index named a pipeline the scheduler holds. *)
AcceptedAreHeld == \A i \in 1..Len(tasks) : tasks[i] # Done => Held(tasks[i].name)

(* C19: a task naming a pipeline the scheduler does not hold gets no index *)
(* and the step that skips it enqueues, counts and submits nothing and     *)
(* leaves the call at its next task.                                       *)
C19_UnknownPipelineSkipped ==
    [][/\ AcceptedAreHeld'
       /\ (caller.pc = "schedule" /\ ~caller.skipped /\ caller'.skipped) =>
              /\ caller'.pc = "schedule"
              /\ caller'.n = caller.n
              /\ caller'.builder = caller.builder
              /\ UNCHANGED <<totalTasks, updateQueue, userArgsQueue,
                             gpuSteps, updateWorker, processWorker>>]_vars

C19_Witness ==
    /\ caller.pc = "schedule"
    /\ caller.skipped
    /\ caller.n >= 1
    /\ ~isDict

(* C20: a schedule() call that has accepted nothing either ends or skips   *)
(* with totalTasks, the queues, the submissions and the worker targets as  *)
(* they were, or accepts a task that names a pipeline the scheduler holds. *)
C20_NothingScheduled ==
    [][(caller.pc = "schedule" /\ caller.n = 0 /\ caller' # caller) =>
          IF caller'.pc = "schedule" /\ caller'.n > 0
          THEN Held(tasks'[Len(tasks')].name)
          ELSE UNCHANGED <<totalTasks, updateQueue, userArgsQueue, gpuSteps,
                           updateWorker.target, processWorker.target>>]_vars

C20_Witness ==
    /\ caller.pc = "schedule"
    /\ caller.skipped
    /\ caller.n = 0
    /\ isDict
    /\ totalTasks >= 1

(* C11: every task schedule() accepted completes: the completion timeline  *)
(* passes the index of each task counted in totalTasks, so that wait()     *)
(* returns (a worker ended by a raising setParams set aside).              *)
C11_EveryTaskCompletes ==
    \A n \in 0..(MaxTasks - 1) :
        (totalTasks > n) ~> (completionTimeline > n \/ updateWorker.pc = "dead")

----------------------------------------------------------------------------
(* _CounterWorkerThread, statement by statement: the thread running _loop  *)
(* and one thread calling run(n) and stop().                               *)

(* Bound on the target the run(n) calls add up to. *)
MaxTarget == 3
(* The n of a run(n) call. *)
RunCounts == {1, 2}

(* A scheduler that is constructed and never used. *)
SchedulerIdle == SchedulerInit /\ config = <<FALSE, 0, FALSE>>

(* pc: the statement of _loop the thread is at; rpc: where the caller of   *)
(* run / stop is; lock: who holds _suspendLock; seen: the _isSuspending    *)
(* run read under the lock.  calls and active record the invocations of fn *)
(* and raced that the locked re-check found the target grown.              *)
CounterWorkerInit ==
    cwt = [isSuspending |-> TRUE, isStopping |-> FALSE, lock |-> "free",
           wakeEvent |-> FALSE, counter |-> 0, target |-> 0,
           pc |-> "test", rpc |-> "out", seen |-> FALSE,
           calls |-> <<>>, active |-> 0, raced |-> FALSE]

InitWorker ==
    /\ SchedulerIdle
    /\ CounterWorkerInit
    /\ dts = Absent
    /\ pl = Absent
    /\ sq = Absent
    /\ st = Absent
    /\ lk = Absent

workerOnly == UNCHANGED <<schedulerVars, dts, pl, sq, st, lk>>

(* run: "self._target += n" *)
RunAdd(n) ==
    /\ cwt.rpc = "out"
    /\ ~cwt.isStopping
    /\ cwt.target + n <= MaxTarget
    /\ cwt' = [cwt EXCEPT !.target = @ + n, !.rpc = "locking"]
    /\ workerOnly

(* run: "with self._suspendLock: if self._isSuspending" *)
RunLock ==
    /\ cwt.rpc = "locking"
    /\ cwt.lock = "free"
    /\ cwt' = [cwt EXCEPT !.lock = "run", !.seen = cwt.isSuspending,
                          !.rpc = "locked"]
    /\ workerOnly

(* run: "self._wakeEvent.set()" if suspended, and the lock released *)
RunSet ==
    /\ cwt.rpc = "locked"
    /\ cwt' = [cwt EXCEPT !.wakeEvent = @ \/ cwt.seen, !.lock = "free",
                          !.rpc = "out"]
    /\ workerOnly

(* stop: "self._isStopping = True" *)
StopFlag ==
    /\ cwt.rpc = "out"
    /\ ~cwt.isStopping
    /\ cwt' = [cwt EXCEPT !.isStopping = TRUE, !.rpc = "stopping"]
    /\ workerOnly

StopWake_NoWake ==
    /\ cwt.rpc = "stopping"
    /\ cwt.lock = "free"
    /\ cwt' = [cwt EXCEPT !.rpc = "join"]
    /\ workerOnly

(* stop: "with self._suspendLock: self._wakeEvent.set()" *)
StopWake ==
    /\ cwt.rpc = "stopping"
    /\ cwt.lock = "free"
    /\ cwt' = [cwt EXCEPT !.wakeEvent = TRUE, !.rpc = "join"]
    /\ workerOnly

(* stop: "self._thread.join()" *)
StopJoin ==
    /\ cwt.rpc = "join"
    /\ cwt.pc \in {"exited", "dead"}
    /\ cwt' = [cwt EXCEPT !.rpc = "stopped"]
    /\ workerOnly

(* _loop: "if self._isSuspending" *)
LoopTest ==
    /\ cwt.pc = "test"
    /\ cwt' = [cwt EXCEPT !.pc = IF cwt.isSuspending THEN "wait" ELSE "stopcheck"]
    /\ workerOnly

(* _loop: "self._wakeEvent.wait()" *)
LoopWait ==
    /\ cwt.pc = "wait"
    /\ cwt.wakeEvent
    /\ cwt' = [cwt EXCEPT !.pc = "clear"]
    /\ workerOnly

(* _loop: "self._wakeEvent.clear()" *)
LoopClear ==
    /\ cwt.pc = "clear"
    /\ cwt' = [cwt EXCEPT !.wakeEvent = FALSE, !.pc = "resume"]
    /\ workerOnly

LoopResume_KeepsFlag ==
    /\ cwt.pc = "resume"
    /\ cwt' = [cwt EXCEPT !.pc = "stopcheck"]
    /\ workerOnly

(* _loop: "self._isSuspending = False" *)
LoopResume ==
    /\ cwt.pc = "resume"
    /\ cwt' = [cwt EXCEPT !.isSuspending = FALSE, !.pc = "stopcheck"]
    /\ workerOnly

(* _loop: "if self._isStopping: break" *)
LoopStopCheck ==
    /\ cwt.pc = "stopcheck"
    /\ cwt' = [cwt EXCEPT !.pc = IF cwt.isStopping THEN "exited" ELSE "quick"]
    /\ workerOnly

(* "self._counter >= self._target", the unlocked and the locked one *)
quickCheck_Mutant(c) == FALSE
quickCheck(c) == c.counter >= c.target
recheck_Mutant(c) == TRUE
recheck(c) == c.counter >= c.target

(* _loop: the quick and unsafe check *)
LoopQuick ==
    /\ cwt.pc = "quick"
    /\ cwt' = [cwt EXCEPT !.pc = IF quickCheck(cwt) THEN "lock" ELSE "fn"]
    /\ workerOnly

(* _loop: "with self._suspendLock" entered *)
LoopLock ==
    /\ cwt.pc = "lock"
    /\ cwt.lock = "free"
    /\ cwt' = [cwt EXCEPT !.lock = "loop", !.pc = "safe"]
    /\ workerOnly

(* _loop: the check again under the lock: suspend and continue, or go on;  *)
(* the lock is released either way.                                        *)
LoopSafe ==
    /\ cwt.pc = "safe"
    /\ cwt' = IF recheck(cwt)
              THEN [cwt EXCEPT !.isSuspending = TRUE, !.lock = "free",
                               !.pc = "test"]
              ELSE [cwt EXCEPT !.lock = "free", !.pc = "fn", !.raced = TRUE]
    /\ workerOnly

(* _loop: "self._fn(self._counter)" called *)
FnCall ==
    /\ cwt.pc = "fn"
    /\ cwt' = [cwt EXCEPT !.calls = Append(@, cwt.counter), !.active = @ + 1,
                          !.pc = "infn"]
    /\ workerOnly

(* fn returns, or raises and ends the thread *)
FnReturn(raised) ==
    /\ cwt.pc = "infn"
    /\ cwt' = [cwt EXCEPT !.active = @ - 1,
                          !.pc = IF raised THEN "dead" ELSE "count"]
    /\ workerOnly

(* _loop: "self._counter += 1" *)
LoopCount ==
    /\ cwt.pc = "count"
    /\ cwt' = [cwt EXCEPT !.counter = @ + 1, !.pc = "test"]
    /\ workerOnly

NextWorker ==
    \/ \E n \in RunCounts : RunAdd(n)
    \/ RunLock
    \/ RunSet
    \/ StopFlag
    \/ StopWake
    \/ StopJoin
    \/ LoopTest
    \/ LoopWait
    \/ LoopClear
    \/ LoopResume
    \/ LoopStopCheck
    \/ LoopQuick
    \/ LoopLock
    \/ LoopSafe
    \/ FnCall
    \/ \E raised \in BOOLEAN : FnReturn(raised)
    \/ LoopCount

WorkerSpec == InitWorker /\ [][NextWorker]_vars

(* Both threads keep running, a run() or stop() entered is carried on, and *)
(* fn returns unless it raises.                                            *)
WorkerFairness ==
    /\ WF_vars(RunLock)
    /\ WF_vars(RunSet)
    /\ WF_vars(StopWake)
    /\ WF_vars(StopJoin)
    /\ WF_vars(LoopTest)
    /\ WF_vars(LoopWait)
    /\ WF_vars(LoopClear)
    /\ WF_vars(LoopResume)
    /\ WF_vars(LoopStopCheck)
    /\ WF_vars(LoopQuick)
    /\ WF_vars(LoopLock)
    /\ WF_vars(LoopSafe)
    /\ WF_vars(FnCall)
    /\ WF_vars(FnReturn(FALSE))
    /\ WF_vars(LoopCount)

WorkerFairSpec == InitWorker /\ [][NextWorker]_vars /\ WorkerFairness

(* C21: fn is invoked with 0, 1, 2, ... in this order, without gap or      *)
(* repeat, never twice at once and only with an index below the target;    *)
(* the count never exceeds the target.                                     *)
C21_CounterOrder ==
    /\ \A i \in 1..Len(cwt.calls) : cwt.calls[i] = i - 1 /\ cwt.calls[i] < cwt.target
    /\ Len(cwt.calls) = cwt.counter + (IF cwt.pc \in {"infn", "count", "dead"} THEN 1 ELSE 0)
    /\ cwt.active <= 1
    /\ cwt.active = 1 <=> cwt.pc = "infn"
    /\ cwt.counter <= cwt.target

C21_Witness ==
    /\ cwt.pc = "infn"
    /\ Len(cwt.calls) = 3
    /\ cwt.rpc = "locked"
    /\ cwt.raced

(* C22: no wake-up is lost: the count reaches every index the target has   *)
(* passed, unless the worker is stopped or fn raised; and a worker blocked *)
(* on the wake event with work left has a run() on its way to set it.      *)
C22_NoLostWakeup ==
    /\ \A k \in 0..(MaxTarget - 1) :
          (cwt.target > k) ~> (cwt.counter > k \/ cwt.isStopping \/ cwt.pc = "dead")
    /\ [](cwt.pc = "wait" /\ ~cwt.wakeEvent /\ cwt.counter < cwt.target
            => cwt.isSuspending /\ cwt.rpc \in {"locking", "locked"}
               /\ (cwt.rpc = "locked" => cwt.seen))

(* The run() fell between the unlocked and the locked check, the worker    *)
(* went on, and later suspended with all work done.                        *)
C22_Witness ==
    /\ cwt.raced
    /\ cwt.pc = "wait"
    /\ ~cwt.wakeEvent
    /\ cwt.counter = cwt.target
    /\ cwt.rpc = "out"
    /\ ~cwt.isStopping

----------------------------------------------------------------------------
(* DynamicTask and DynamicTaskScheduler: a user thread scheduling tasks    *)
(* and waiting, and the process worker of the wrapped PipelineScheduler    *)
(* calling _process once per batch, in the order the batches were          *)
(* scheduled, with the task as args.                                       *)

(* The DynamicTasks constructed, their initialBatchCount at most           *)
(* MaxInitial, and the batches one task is let to run in all.              *)
DynTasks == {1, 2}
MaxInitial == 2
MaxBatches == 3
(* What processBatch may return. *)
BatchReturns == {0, 1, 2}

(* DynamicTask.__init__; scheduled, processed, returned and reported are   *)
(* history: passed to scheduleTask(s), calls of processBatch, the sum of   *)
(* what they returned, put on the result queue.                            *)
newTask(initialBatchCount) ==
    [initial |-> initialBatchCount, remaining |-> initialBatchCount,
     finished |-> FALSE, scheduled |-> FALSE, processed |-> 0,
     returned |-> 0, reported |-> FALSE]

DynamicInit ==
    \E initial \in [DynTasks -> 0..MaxInitial] :
        dts = [task |-> [t \in DynTasks |-> newTask(initial[t])],
               inFlight |-> 0, allFinished |-> FALSE, counterLock |-> "free",
               queue |-> <<>>, results |-> <<>>, taken |-> <<>>,
               user |-> [pc |-> "out", pending |-> {}],
               proc |-> [pc |-> "idle", task |-> 0, n |-> 0]]

InitDynamic ==
    /\ SchedulerIdle
    /\ cwt = Absent
    /\ DynamicInit
    /\ pl = Absent
    /\ sq = Absent
    /\ st = Absent
    /\ lk = Absent

dynamicOnly == UNCHANGED <<schedulerVars, cwt, pl, sq, st, lk>>

(* k copies of one batch *)
RECURSIVE copies(_, _)
copies(t, k) == IF k <= 0 THEN <<>> ELSE <<t>> \o copies(t, k - 1)

(* _schedule: nBatches items for the task go to the wrapped scheduler,     *)
(* under _schedulerLock.                                                   *)
dynSchedule(queue, t, nBatches) == queue \o copies(t, nBatches)

(* scheduleTask / scheduleTasks: the lock taken, the counter raised by the *)
(* number of tasks passed.                                                 *)
DynCount(ts) ==
    /\ dts.user.pc \in {"out", "waited"}
    /\ ts # {}
    /\ \A t \in ts : ~dts.task[t].scheduled
    /\ dts.counterLock = "free"
    /\ dts' = [dts EXCEPT
          !.counterLock = "user",
          !.inFlight = @ + Cardinality(ts),
          !.task = [t \in DynTasks |->
                       IF t \in ts THEN [@[t] EXCEPT !.scheduled = TRUE] ELSE @[t]],
          !.user = [pc |-> "clear", pending |-> ts]]
    /\ dynamicOnly

(* "self._allFinishedEvent.clear()" and the lock released *)
DynClear ==
    /\ dts.user.pc = "clear"
    /\ dts' = [dts EXCEPT !.allFinished = FALSE, !.counterLock = "free",
                          !.user.pc = "schedule"]
    /\ dynamicOnly

(* "self._schedule(task, task.batchesRemaining)" for the next task passed *)
DynIssue(t) ==
    /\ dts.user.pc = "schedule"
    /\ t \in dts.user.pending
    /\ dts' = [dts EXCEPT
          !.queue = dynSchedule(@, t, dts.task[t].remaining),
          !.user = [pc |-> IF dts.user.pending = {t} THEN "out" ELSE "schedule",
                    pending |-> dts.user.pending \ {t}]]
    /\ dynamicOnly

(* waitAll() returns True *)
DynWaitAll ==
    /\ dts.user.pc = "out"
    /\ dts.allFinished
    /\ dts' = [dts EXCEPT !.user.pc = "waited"]
    /\ dynamicOnly

(* waitNext() returns the head of the result queue; taken records the     *)
(* task as it is at that moment.                                           *)
DynWaitNext ==
    /\ dts.user.pc \in {"out", "waited"}
    /\ dts.results # <<>>
    /\ LET t == Head(dts.results)
       IN dts' = [dts EXCEPT
             !.results = Tail(@),
             !.taken = Append(@, [task |-> t,
                                  finished |-> dts.task[t].finished,
                                  remaining |-> dts.task[t].remaining])]
    /\ dynamicOnly

(* DynamicTask.onBatchFinished with processBatch returning n *)
taskFinished(remaining) == remaining = 0
onBatchFinished_NoDecrement(task, n) ==
    LET remaining == task.remaining + n
    IN [task EXCEPT !.remaining = remaining,
                    !.processed = @ + 1,
                    !.returned = @ + n,
                    !.finished = @ \/ taskFinished(remaining)]

onBatchFinished(task, n) ==
    LET remaining == task.remaining - 1 + n
    IN [task EXCEPT !.remaining = remaining,
                    !.processed = @ + 1,
                    !.returned = @ + n,
                    !.finished = @ \/ taskFinished(remaining)]

(* _process called for the next batch: "task.onBatchFinished(config)" *)
DynBatch(n) ==
    /\ dts.proc.pc = "idle"
    /\ dts.queue # <<>>
    /\ LET t == Head(dts.queue)
       IN /\ dts.task[t].initial + dts.task[t].returned + n <= MaxBatches
          /\ dts' = [dts EXCEPT !.queue = Tail(@),
                                !.task[t] = onBatchFinished(@, n),
                                !.proc = [pc |-> "after", task |-> t, n |-> n]]
    /\ dynamicOnly

(* _process: "self._resultQueue.put(task)" *)
DynReport ==
    /\ dts.proc.pc = "after"
    /\ dts.task[dts.proc.task].remaining = 0
    /\ dts' = [dts EXCEPT !.results = Append(@, dts.proc.task),
                          !.task[dts.proc.task].reported = TRUE,
                          !.proc.pc = "lock"]
    /\ dynamicOnly

(* _process: "self._schedule(task, nNewBatches)" *)
DynReissue ==
    /\ dts.proc.pc = "after"
    /\ dts.task[dts.proc.task].remaining # 0
    /\ dts' = [dts EXCEPT !.queue = dynSchedule(@, dts.proc.task, dts.proc.n),
                          !.proc = [pc |-> "idle", task |-> 0, n |-> 0]]
    /\ dynamicOnly

(* _process: the lock taken, "self._inFlightCounter -= 1" *)
DynDecrement ==
    /\ dts.proc.pc = "lock"
    /\ dts.counterLock = "free"
    /\ dts' = [dts EXCEPT !.counterLock = "process", !.inFlight = @ - 1,
                          !.proc.pc = "notify"]
    /\ dynamicOnly

(* _process: "if self._inFlightCounter <= 0: set()" and the lock released *)
allDone_Mutant(inFlight) == TRUE
allDone(inFlight) == inFlight <= 0
DynNotify ==
    /\ dts.proc.pc = "notify"
    /\ dts' = [dts EXCEPT !.allFinished = @ \/ allDone(dts.inFlight),
                          !.counterLock = "free",
                          !.proc = [pc |-> "idle", task |-> 0, n |-> 0]]
    /\ dynamicOnly

NextDynamic ==
    \/ \E ts \in SUBSET DynTasks : DynCount(ts)
    \/ DynClear
    \/ \E t \in DynTasks : DynIssue(t)
    \/ DynWaitAll
    \/ DynWaitNext
    \/ \E n \in BatchReturns : DynBatch(n)
    \/ DynReport
    \/ DynReissue
    \/ DynDecrement
    \/ DynNotify

DynamicSpec == InitDynamic /\ [][NextDynamic]_vars

(* The batches of task t waiting in the wrapped scheduler. *)
queued(t) == Cardinality({i \in 1..Len(dts.queue) : dts.queue[i] = t})

(* Task t was passed to scheduleTask(s) and that call is through with it. *)
issued(t) == dts.task[t].scheduled /\ t \notin dts.user.pending

(* C23: a scheduled task has had processBatch called at most               *)
(* initialBatchCount plus the sum of the values returned, has the rest of  *)
(* them waiting, and is marked finished, with batchesRemaining 0, exactly  *)
(* when that many were processed.                                          *)
C23_BatchTotal ==
    \A t \in DynTasks :
        LET task == dts.task[t]
            total == task.initial + task.returned
        IN /\ task.processed <= total
           /\ task.remaining = total - task.processed
           /\ issued(t) /\ dts.proc.task # t => queued(t) = task.remaining
           /\ issued(t) => (task.finished <=> task.processed = total)


(* The tasks passed to scheduleTask(s), and those reported completed. *)
scheduledTasks == {t \in DynTasks : dts.task[t].scheduled}
reportedTasks == {t \in DynTasks : dts.task[t].reported}

(* C24: whenever the in-flight lock is free, the in-flight counter is the  *)
(* number of tasks passed to scheduleTask(s) less the number reported      *)
(* completed, and it is never negative.                                    *)
C24_InFlightCount ==
    /\ dts.inFlight >= 0
    /\ dts.counterLock = "free" =>
           dts.inFlight = Cardinality(scheduledTasks) - Cardinality(reportedTasks)

(* C25: with the in-flight lock free the all-finished event is set only    *)
(* while the counter is zero and every task passed to scheduleTask(s) is   *)
(* finished; so it is when waitAll() has returned True.                    *)
C25_AllFinishedOnlyAtZero ==
    /\ dts.allFinished /\ dts.counterLock = "free" =>
           /\ dts.inFlight = 0
           /\ \A t \in scheduledTasks : dts.task[t].finished
    /\ dts.user.pc = "waited" => \A t \in scheduledTasks : dts.task[t].finished

(* waitAll() returned True after a task was scheduled while the one before *)
(* it was completing.                                                      *)
C25_Witness ==
    /\ dts.user.pc = "waited"
    /\ scheduledTasks = DynTasks
    /\ Len(dts.results) = 2
    /\ \A t \in DynTasks : dts.task[t].processed >= 1


----------------------------------------------------------------------------
(* Pipeline: construction (the stage names) and getParams / setParams.     *)
(* A string is the sequence of its characters.                             *)

(* Bound on the stages of a pipeline. *)
MaxStages == 3

Sep == <<"_", "_">>
(* Stage classes: the default name (PipelineStage.name of the class) and   *)
(* the fields declared; a field starting with "_" is private.              *)
StageClasses ==
    { [cls |-> <<"t">>, fields |-> {<<"m">>, <<"b">>, <<"_", "d">>}],
      [cls |-> <<"s">>, fields |-> {<<"m">>, <<"b", "_", "_", "m">>}] }
(* The name a stage is passed with; NoName for a stage passed bare. *)
NoName == <<"?">>
GivenNames == {NoName, <<"a">>, <<"a", "_", "_", "b">>}
(* The keys setParams is called with, and the value. *)
ParamKeys ==
    { <<"m">>, <<"b">>, <<"_", "d">>, <<"b", "_", "_", "m">>,
      <<"a">> \o Sep \o <<"m">>, <<"t">> \o Sep \o <<"_", "d">>,
      <<"a">> \o Sep \o <<"b">> \o Sep \o <<"m">>,
      <<"x">> \o Sep \o <<"m">> }
NewValue == 77

StageInputs == [given : GivenNames, class : StageClasses]
RECURSIVE SeqsUpTo(_, _)
SeqsUpTo(S, n) ==
    IF n = 0 THEN {<<>>}
    ELSE LET shorter == SeqsUpTo(S, n - 1)
         IN shorter \cup {Append(q, x) : q \in {r \in shorter : Len(r) = n - 1}, x \in S}
PipelineInputs == SeqsUpTo(StageInputs, MaxStages) \ {<<>>}

(* str(k) of a small count *)
Digits == <<"0", "1", "2", "3", "4", "5", "6", "7", "8", "9">>
str(k) == <<Digits[k + 1]>>

(* repr of the dict name_counter, kept as its items in insertion order:    *)
(* {'a': 2, 'b': 1}                                                         *)
RECURSIVE reprItems(_)
reprItems(items) ==
    IF items = <<>> THEN <<>>
    ELSE <<"'">> \o items[1].key \o <<"'", ":", " ">> \o str(items[1].n)
         \o (IF Len(items) = 1 THEN <<>> ELSE <<",", " ">> \o reprItems(Tail(items)))
repr(items) == <<"{">> \o reprItems(items) \o <<"}">>

hasKey(items, key) == \E i \in 1..Len(items) : items[i].key = key
increment(items, key) ==
    [i \in 1..Len(items) |->
        IF items[i].key = key THEN [items[i] EXCEPT !.n = @ + 1] ELSE items[i]]

(* "s if isinstance(s, tuple) else (s.name, s)" *)
firstName(in) == IF in.given = NoName THEN in.class.cls ELSE in.given

(* The name of a stage colliding on a name used before:                    *)
(* f"{stage.name}{name_counter}"                                           *)
collisionName(in, counter) == in.class.cls \o repr(counter)

(* The value a field holds at construction: told apart by stage and field. *)
fieldIndex(f) == Len(f) * 2 + (IF f[1] = "m" THEN 1 ELSE 0)
initialValue(i, f) == 10 * i + fieldIndex(f)

(* Pipeline.__init__: the loop over the stages, giving _stageList and the  *)
(* counter; _stageDict maps a name to the last stage put under it.         *)
RECURSIVE construct(_, _, _)
construct(inputs, i, acc) ==
    IF i > Len(inputs) THEN acc
    ELSE LET in == inputs[i]
             name == firstName(in)
             collides == hasKey(acc.counter, name)
             counter == IF collides THEN increment(acc.counter, name)
                        ELSE Append(acc.counter, [key |-> name, n |-> 1])
             unique == IF collides THEN collisionName(in, counter) ELSE name
             stage == [name |-> unique, fields |-> in.class.fields,
                       vals |-> [f \in in.class.fields |-> initialValue(i, f)]]
         IN construct(inputs, i + 1,
                      [list |-> Append(acc.list, stage), counter |-> counter])

stageDict(list) ==
    [name \in {list[i].name : i \in 1..Len(list)} |->
        CHOOSE i \in 1..Len(list) :
            /\ list[i].name = name
            /\ \A j \in 1..Len(list) : list[j].name = name => j <= i]

(* "__" in name, and name.split("__", 1) *)
sepAt(name, i) == i + 1 <= Len(name) /\ name[i] = "_" /\ name[i + 1] = "_"
hasSep(name) == \E i \in 1..Len(name) : sepAt(name, i)
firstSep(name) ==
    CHOOSE i \in 1..Len(name) : sepAt(name, i) /\ \A j \in 1..(i - 1) : ~sepAt(name, j)
lastSep(name) ==
    CHOOSE i \in 1..Len(name) : sepAt(name, i) /\ \A j \in (i + 1)..Len(name) : ~sepAt(name, j)
splitAt(name, i) ==
    [stage |-> SubSeq(name, 1, i - 1), param |-> SubSeq(name, i + 2, Len(name))]
split_Mutant(name) == splitAt(name, lastSep(name))
split(name) == splitAt(name, firstSep(name))

(* PipelineStage: _public, getParams, setParam *)
isPublic(f) == f[1] # "_"
public(stage) == {f \in stage.fields : isPublic(f)}
stageSetParam(stage, name, value) ==
    IF name \notin stage.fields THEN stage
    ELSE [stage EXCEPT !.vals[name] = value]

(* Pipeline.getParams: stageName + "__" + paramName over the stages in     *)
(* order; a key written twice keeps the later value.                       *)
paramKey(stageName, paramName) == stageName \o Sep \o paramName
getParams(list) ==
    LET pairs == {<<i, f>> \in (1..Len(list)) \X UNION {list[i].fields : i \in 1..Len(list)} :
                     f \in public(list[i])}
        keys == {paramKey(list[p[1]].name, p[2]) : p \in pairs}
    IN [k \in keys |->
           LET last == CHOOSE p \in pairs :
                          /\ paramKey(list[p[1]].name, p[2]) = k
                          /\ \A q \in pairs :
                                 paramKey(list[q[1]].name, q[2]) = k => q[1] <= p[1]
           IN list[last[1]].vals[last[2]]]

(* Pipeline.setParams for one item of params: the list after it, and       *)
(* whether it warned.                                                      *)
pipelineSetParam(list, name, value) ==
    IF hasSep(name)
    THEN LET sp == split(name)
             dict == stageDict(list)
         IN IF sp.stage \notin DOMAIN dict
            THEN [list |-> list, warned |-> TRUE]
            ELSE [list |-> [list EXCEPT ![dict[sp.stage]] =
                                           stageSetParam(@, sp.param, value)],
                  warned |-> FALSE]
    ELSE [list |-> [i \in 1..Len(list) |-> stageSetParam(list[i], name, value)],
          warned |-> FALSE]

(* Pipeline.setParams over all of params, item by item.  Two keys never write the   *)
(* same field of the same stage, so the order of the items is immaterial.  *)
RECURSIVE pipelineSetParams(_, _)
pipelineSetParams(list, params) ==
    IF DOMAIN params = {} THEN list
    ELSE LET k == CHOOSE x \in DOMAIN params : TRUE
             rest == [x \in DOMAIN params \ {k} |-> params[x]]
         IN pipelineSetParams(pipelineSetParam(list, k, params[k]).list, rest)

(* pc: "new" before __init__ ran, "ready", "set" after a setParams of one  *)
(* key, "same" after setParams of getParams(); before, key and warned      *)
(* record the last call.                                                   *)
InitPipeline ==
    /\ SchedulerIdle
    /\ cwt = Absent
    /\ dts = Absent
    /\ sq = Absent
    /\ st = Absent
    /\ lk = Absent
    /\ \E inputs \in PipelineInputs :
          pl = [pc |-> "new", inputs |-> inputs, list |-> <<>>,
                before |-> <<>>, key |-> <<>>, warned |-> FALSE]

pipelineOnly == UNCHANGED <<schedulerVars, cwt, dts, sq, st, lk>>

PipelineConstruct ==
    /\ pl.pc = "new"
    /\ pl' = [pl EXCEPT !.pc = "ready",
                        !.list = construct(pl.inputs, 1,
                                           [list |-> <<>>, counter |-> <<>>]).list]
    /\ pipelineOnly

PipelineSetParams(key) ==
    /\ pl.pc = "ready"
    /\ LET r == pipelineSetParam(pl.list, key, NewValue)
       IN pl' = [pl EXCEPT !.pc = "set", !.list = r.list,
                           !.before = pl.list, !.key = key,
                           !.warned = r.warned]
    /\ pipelineOnly

PipelineRoundTrip ==
    /\ pl.pc \in {"ready", "set"}
    /\ pl' = [pl EXCEPT !.pc = "same",
                        !.list = pipelineSetParams(pl.list, getParams(pl.list)),
                        !.before = pl.list, !.key = <<>>, !.warned = FALSE]
    /\ pipelineOnly

NextPipeline ==
    \/ PipelineConstruct
    \/ \E key \in ParamKeys : PipelineSetParams(key)
    \/ PipelineRoundTrip

PipelineSpec == InitPipeline /\ [][NextPipeline]_vars

(* C26: setParams with what getParams() returns leaves every field of every stage, public *)
(* and private, as it was.                                                 *)
C26_RoundTripNoOp ==
    pl.pc = "same" => pl.list = pl.before


(* The stage of the list with the given name set to value in field f, if   *)
(* it declares f; every other stage and field as it is.                    *)
setOn(list, names, f, value) ==
    [i \in 1..Len(list) |->
        IF list[i].name \in names /\ f \in list[i].fields
        THEN [list[i] EXCEPT !.vals[f] = value]
        ELSE list[i]]
stageNames(list) == {list[i].name : i \in 1..Len(list)}
publicPairs(list) ==
    {<<i, f>> \in (1..Len(list)) \X UNION {list[i].fields : i \in 1..Len(list)} :
        f \in list[i].fields /\ f[1] # "_"}

expectedName(inputs, i) ==
    LET name == firstName(inputs[i])
        k == Cardinality({j \in 1..i : firstName(inputs[j]) = name})
    IN IF k = 1 THEN name ELSE name \o str(k)

(* C28: the stages of a constructed pipeline are named so and distinctly,  *)
(* and the lookup by name has one entry per stage.                         *)
C28_UniqueStageNames ==
    pl.pc \notin {"absent", "new"} =>
        /\ \A i \in 1..Len(pl.list) : pl.list[i].name = expectedName(pl.inputs, i)
        /\ \A i, j \in 1..Len(pl.list) : pl.list[i].name = pl.list[j].name => i = j
        /\ Cardinality(DOMAIN stageDict(pl.list)) = Len(pl.list)


----------------------------------------------------------------------------
(* The steps schedule() has put in a submission, submitted or not. *)
builtSteps == gpuSteps \cup {caller.builder[k] : k \in 1..Len(caller.builder)}

(* C29: the step of the task given index n waits for the pipeline timeline *)
(* at n, for the update timeline at n + 1 and, only with a processFn and   *)
(* n >= 2, for the process timeline at n - 1, and runs subroutine n mod 2  *)
(* of the pipeline the task named; the steps of a call carry the indices   *)
(* up to totalTasks, whichever pipelines they run on.                      *)
C29_StepOfTask ==
    /\ \A s \in builtSteps :
          /\ s.waitPipeline = s.task
          /\ s.waitUpdate = s.task + 1
          /\ IF hasProcessFn /\ s.task >= 2
             THEN s.waitProcess = s.task - 1
             ELSE s.waitProcess = 0
          /\ s.config = s.task % 2
          /\ s.pipeline = IF isDict THEN tasks[s.task + 1].name ELSE "p1"
    /\ \A k \in 1..Len(caller.builder) :
          caller.builder[k].task = totalTasks - Len(caller.builder) + (k - 1)

C29_Witness ==
    /\ hasProcessFn
    /\ Len(caller.builder) = 1
    /\ caller.builder[1].task = 2
    /\ caller.builder[1].waitProcess = 1
    /\ \E s \in gpuSteps : s.task = 1 /\ s.waitProcess = 0

(* C30: the process timeline is at most the pipeline timeline, that at     *)
(* most the update timeline, which is at most two ahead of it; with a      *)
(* processFn the pipeline timeline is at most two ahead of the process     *)
(* timeline.  A timeline never decreases and grows by one at a time.       *)
timelineOrder ==
    /\ processTimeline <= pipelineTimeline
    /\ pipelineTimeline <= updateTimeline
    /\ updateTimeline <= pipelineTimeline + 2
    /\ hasProcessFn => pipelineTimeline <= processTimeline + 2

C30_TimelineBounds ==
    [][/\ timelineOrder'
       /\ pipelineTimeline' \in {pipelineTimeline, pipelineTimeline + 1}
       /\ updateTimeline' \in {updateTimeline, updateTimeline + 1}
       /\ processTimeline' \in {processTimeline, processTimeline + 1}]_vars

C30_Witness ==
    /\ hasProcessFn
    /\ pipelineTimeline = processTimeline + 2
    /\ updateTimeline = pipelineTimeline + 1

----------------------------------------------------------------------------
(* PipelineScheduler.schedule on a bounded update queue, with the task     *)
(* list explicit: sq.left tasks of the iterable are still to come.  All    *)
(* tasks are valid and name a known pipeline.  The update worker takes an  *)
(* entry off the queue only while its counter is below its target, and     *)
(* the target is raised by run(n) after the loop of schedule().            *)
MaxList == 3
MaxEnlisted == 4
QueueSizes == {0, 1, 2}

QueueInit ==
    \E q \in QueueSizes :
        sq = [queueSize |-> q, pc |-> "out", left |-> 0, n |-> 0,
              timeout |-> FALSE, attempts |-> 0, queue |-> 0,
              target |-> 0, counter |-> 0, total |-> 0]

InitQueue ==
    /\ SchedulerIdle
    /\ QueueInit
    /\ cwt = Absent
    /\ dts = Absent
    /\ pl = Absent
    /\ st = Absent
    /\ lk = Absent

queueOnly == UNCHANGED <<schedulerVars, cwt, dts, pl, st, lk>>

(* schedule(tasks, timeout=timeout) entered with len tasks: n = 0. *)
SqBegin(len, timeout) ==
    /\ sq.pc = "out"
    /\ sq.total < MaxEnlisted
    /\ sq' = [sq EXCEPT !.pc = "loop", !.left = len, !.n = 0,
                        !.timeout = timeout, !.attempts = 0]
    /\ queueOnly

(* "if self.queueSize > 0 and n > self.queueSize: break" *)
capacityReached(q, n) == q > 0 /\ n > q

(* The next task of the iterable up to the call of put: break on the      *)
(* capacity check, else try to enlist.                                     *)
SqNext ==
    /\ sq.pc = "loop"
    /\ sq.left > 0
    /\ sq' = IF capacityReached(sq.queueSize, sq.n)
             THEN [sq EXCEPT !.pc = "tail"]
             ELSE [sq EXCEPT !.pc = "put", !.left = @ - 1,
                             !.attempts = @ + 1]
    /\ queueOnly

(* queue.Queue.put blocks while a bounded queue holds maxsize entries. *)
sqFull == sq.queueSize > 0 /\ sq.queue >= sq.queueSize

(* put returned: the entry is on the queue; n += 1, _totalTasks += 1. *)
SqPut ==
    /\ sq.pc = "put"
    /\ ~sqFull
    /\ sq' = [sq EXCEPT !.pc = "loop", !.queue = @ + 1, !.n = @ + 1,
                        !.total = @ + 1]
    /\ queueOnly

(* put raised queue.Full after the timeout: break. *)
SqTimeout ==
    /\ sq.pc = "put"
    /\ sq.timeout
    /\ sqFull
    /\ sq' = [sq EXCEPT !.pc = "tail"]
    /\ queueOnly

(* The iterable is exhausted. *)
SqExhausted ==
    /\ sq.pc = "loop"
    /\ sq.left = 0
    /\ sq' = [sq EXCEPT !.pc = "tail"]
    /\ queueOnly

(* After the loop: return (0, None), or Submit() and run(n), return n. *)
SqReturn ==
    /\ sq.pc = "tail"
    /\ sq' = [sq EXCEPT !.pc = "out",
                        !.target = IF sq.n = 0 THEN @ ELSE @ + sq.n]
    /\ queueOnly

(* The update worker runs _update for its next count: the entry is taken  *)
(* off the queue and the task, already handed to the GPU, is carried out. *)
SqFetch ==
    /\ sq.counter < sq.target
    /\ sq.queue > 0
    /\ sq' = [sq EXCEPT !.counter = @ + 1, !.queue = @ - 1]
    /\ queueOnly

NextQueue ==
    \/ \E len \in 0..MaxList, timeout \in BOOLEAN : SqBegin(len, timeout)
    \/ SqNext
    \/ SqPut
    \/ SqTimeout
    \/ SqExhausted
    \/ SqReturn
    \/ SqFetch

QueueSpec == InitQueue /\ [][NextQueue]_vars

(* The calling thread runs on, a put with a timeout gives up on a queue   *)
(* that stays full, and the update worker carries out what it was handed. *)
QueueFairness ==
    /\ WF_vars(SqNext)
    /\ WF_vars(SqPut)
    /\ WF_vars(SqTimeout)
    /\ WF_vars(SqExhausted)
    /\ WF_vars(SqReturn)
    /\ WF_vars(SqFetch)

QueueFairSpec == InitQueue /\ [][NextQueue]_vars /\ QueueFairness

(* C31: a schedule call without timeout on a bounded queue eventually      *)
(* returns, whatever the length of the task list, while the update worker  *)
(* carries out the tasks it was handed.                                    *)
C31_ScheduleReturns ==
    (sq.pc # "out" /\ ~sq.timeout /\ sq.queueSize > 0) ~> sq.pc = "out"

(* C32: on a bounded queue of size q one schedule call attempts at most q  *)
(* puts and returns at most q as the number of submitted tasks (sq.n when  *)
(* the call is over).                                                      *)
C32_AtMostCapacity ==
    sq.queueSize > 0 =>
        /\ sq.attempts <= sq.queueSize
        /\ sq.pc = "out" => sq.n <= sq.queueSize

(* C33: whenever a schedule call has ended, by returning or by raising,    *)
(* the targets of the update worker and of the process worker (if any),    *)
(* the number of entries ever put on the update queue and the number of    *)
(* subroutines submitted to the GPU all equal totalTasks.                  *)
submittedSubroutines == pipelineTimeline + Cardinality(gpuSteps)

C33_CountersAgree ==
    caller.pc \in OutsideCall =>
        /\ updateWorker.target = totalTasks
        /\ hasProcessFn => processWorker.target = totalTasks
        /\ Len(tasks) = totalTasks
        /\ submittedSubroutines = totalTasks

----------------------------------------------------------------------------
(* C34: stop() eventually returns, wherever the worker is when stop() is   *)
(* called (fn returns or raises), and once stop() has returned the thread  *)
(* is over and fn is not invoked again.                                    *)
C34_StopReturns ==
    /\ cwt.isStopping ~> cwt.rpc = "stopped"
    /\ [](cwt.rpc = "stopped" => cwt.pc \in {"exited", "dead"} /\ cwt.active = 0)
    /\ [][cwt.rpc = "stopped" => cwt'.calls = cwt.calls]_vars

(* stop() returned from a worker that had run fn, suspended again and    *)
(* was woken by stop(): the event set by stop() has been cleared.         *)
C34_Witness ==
    /\ cwt.rpc = "stopped"
    /\ cwt.pc = "exited"
    /\ ~cwt.wakeEvent
    /\ cwt.counter = cwt.target
    /\ Len(cwt.calls) >= 1

(* C40 as stated: the worker holds the suspend lock when it clears the     *)
(* suspending flag, and run() never reads the flag as set between the      *)
(* return of the wait and the clearing of the flag.                        *)
midWakeup == cwt.pc \in {"clear", "resume"}

C40_ClearedUnderLock ==
    /\ cwt.pc = "resume" => cwt.lock = "loop"
    /\ ~(midWakeup /\ cwt.rpc = "locked" /\ cwt.seen)

(* C40 as amended: the worker clears the event and the flag without the    *)
(* lock; a run() that reads the flag as set in the middle of the wake-up   *)
(* sets the event once more, and the work it added is still carried out.   *)
C40_WakeupWithoutLock ==
    /\ [](midWakeup => cwt.lock # "loop")
    /\ [][(midWakeup /\ cwt.rpc = "locked" /\ cwt.seen /\ cwt'.rpc = "out")
            => cwt'.wakeEvent]_vars
    /\ \A k \in 1..MaxTarget :
          (midWakeup /\ cwt.rpc = "locked" /\ cwt.seen /\ cwt.target = k)
              ~> (cwt.counter >= k \/ cwt.isStopping \/ cwt.pc = "dead")

C40_Witness ==
    /\ midWakeup
    /\ cwt.rpc = "locked"
    /\ cwt.seen
    /\ cwt.lock = "run"

----------------------------------------------------------------------------
(* A PipelineStage on its own: the working copy (_local, reached through   *)
(* _params), the attributes behind the extras, and the two device slots.   *)
(* Names are sequences of characters as in the Pipeline above.             *)
MaxOps == 3

(* The struct fields and the extras a stage is constructed with. *)
StageShapes ==
    { [params |-> {<<"m">>, <<"_", "d">>}, extra |-> {}],
      [params |-> {<<"m">>, <<"_", "d">>}, extra |-> {<<"x">>}],
      [params |-> {<<"m">>}, extra |-> {<<"m">>, <<"_", "e">>}] }
(* The names getParam and setParam are called with, and the values. *)
CallNames == {<<"m">>, <<"_", "d">>, <<"x">>, <<"_", "e">>, <<"q">>}
CallValues == {1, 2}
(* What a freshly allocated device buffer may hold. *)
DeviceGarbage == {0, 9}

(* "self._fields = frozenset(extra | self._params.keys())" with the        *)
(* private fields left out.                                                *)
stageFields_PublicOnly(s) == {f \in s.extra \cup s.params : isPublic(f)}
(* "self._fields = frozenset(extra | self._params.keys())" *)
stageFields(s) == s.extra \cup s.params

(* "self._public": the fields property *)
publicFields(s) == {f \in stageFields(s) : isPublic(f)}

(* PipelineStage.getParam: the value, or raised for an unknown name. *)
getParam(s, name) ==
    IF name \in s.extra THEN [raised |-> FALSE, value |-> s.attrs[name]]
    ELSE IF name \in s.params THEN [raised |-> FALSE, value |-> s.local[name]]
    ELSE [raised |-> TRUE, value |-> 0]

(* PipelineStage.getParams over self.fields *)
stageGetParams(s) == [name \in publicFields(s) |-> getParam(s, name).value]

(* PipelineStage.__setattr__: a struct field of that name is written, and  *)
(* the attribute is set.                                                   *)
setAttr(s, name, value) ==
    [s EXCEPT !.attrs[name] = value,
              !.local = IF name \in s.params
                        THEN [@ EXCEPT ![name] = value] ELSE @]

(* PipelineStage.setParam *)
setParam(s, name, value) ==
    IF name \notin stageFields(s) THEN s
    ELSE IF name \in s.extra THEN setAttr(s, name, value)
    ELSE IF name \in s.params THEN [s EXCEPT !.local[name] = value]
    ELSE s

(* _finishParams(i) of a subclass: private parameters are computed. *)
finishParams(s, i, v) ==
    [s EXCEPT !.local = [f \in s.params |->
                            IF isPublic(f) THEN s.local[f] ELSE v]]

(* update(i) with the copy made before _finishParams(i) *)
stageUpdateSlot_CopyFirst(s, i, v) ==
    LET copied == [s EXCEPT !.device[i] = s.local]
    IN finishParams(copied, i, v)

(* PipelineStage.update(i): _finishParams(i), then each struct of _local   *)
(* is copied into slot i.                                                  *)
stageUpdateSlot(s, i, v) ==
    LET finished == finishParams(s, i, v)
    IN [finished EXCEPT !.device[i] = finished.local]

StageInit ==
    \E shape \in StageShapes, g \in DeviceGarbage :
        LET stage == [params |-> shape.params, extra |-> shape.extra,
                      local |-> [f \in shape.params |-> 0],
                      attrs |-> [f \in shape.extra |-> 0],
                      device |-> [i \in {0, 1} |-> [f \in shape.params |-> g]]]
        IN st = [stage |-> stage, before |-> stage, ops |-> 0,
                 last |-> [op |-> "init", name |-> <<>>, value |-> 0,
                           raised |-> FALSE, slot |-> 0]]

InitStage ==
    /\ SchedulerIdle
    /\ StageInit
    /\ cwt = Absent
    /\ dts = Absent
    /\ pl = Absent
    /\ sq = Absent
    /\ lk = Absent

stageOnly == UNCHANGED <<schedulerVars, cwt, dts, pl, sq, lk>>

StageGetParam(name) ==
    /\ st.ops < MaxOps
    /\ LET r == getParam(st.stage, name)
       IN st' = [st EXCEPT !.before = st.stage, !.ops = @ + 1,
                           !.last = [op |-> "get", name |-> name,
                                     value |-> r.value, raised |-> r.raised,
                                     slot |-> 0]]
    /\ stageOnly

StageSetParam(name, value) ==
    /\ st.ops < MaxOps
    /\ st' = [st EXCEPT !.stage = setParam(st.stage, name, value),
                        !.before = st.stage, !.ops = @ + 1,
                        !.last = [op |-> "set", name |-> name,
                                  value |-> value, raised |-> FALSE,
                                  slot |-> 0]]
    /\ stageOnly

StageUpdate(i, v) ==
    /\ st.ops < MaxOps
    /\ st' = [st EXCEPT !.stage = stageUpdateSlot(st.stage, i, v),
                        !.before = st.stage, !.ops = @ + 1,
                        !.last = [op |-> "update", name |-> <<>>,
                                  value |-> v, raised |-> FALSE,
                                  slot |-> i]]
    /\ stageOnly

NextStage ==
    \/ \E name \in CallNames : StageGetParam(name)
    \/ \E name \in CallNames, value \in CallValues : StageSetParam(name, value)
    \/ \E i \in {0, 1}, v \in CallValues : StageUpdate(i, v)

StageSpec == InitStage /\ [][NextStage]_vars

(* C35: getParam of a name that is neither a field nor an extra raises;    *)
(* setParam of such a name changes neither the working copy nor a device   *)
(* slot; private fields are absent from fields and getParams, and setParam *)
(* changes them all the same.                                              *)
knownName(s, name) == name \in s.params \cup s.extra

C35_UnknownAndPrivateNames ==
    /\ st.last.op = "get" =>
          (st.last.raised <=> ~knownName(st.before, st.last.name))
    /\ (st.last.op = "set" /\ ~knownName(st.before, st.last.name)) =>
          st.stage = st.before
    /\ \A f \in publicFields(st.stage) \cup DOMAIN stageGetParams(st.stage) :
          f[1] # "_"
    /\ (st.last.op = "set" /\ st.last.name \in st.before.params
            /\ st.last.name[1] = "_") =>
          st.stage.local[st.last.name] = st.last.value

(* setParam wrote a private field that getParams does not list. *)
C35_Witness ==
    /\ st.last.op = "set"
    /\ st.stage.extra = {<<"x">>}
    /\ st.last.name = <<"_", "d">>
    /\ st.stage.local[<<"_", "d">>] = 2
    /\ st.before.local[<<"_", "d">>] = 1
    /\ DOMAIN stageGetParams(st.stage) = {<<"m">>, <<"x">>}

(* C36: after update(i) slot i holds the working copy as _finishParams(i)  *)
(* left it and slot 1-i is as before; setParam changes no device slot.     *)
C36_UpdateWritesSlot ==
    /\ st.last.op = "update" =>
          /\ st.stage.device[st.last.slot] = st.stage.local
          /\ st.stage.device[1 - st.last.slot] = st.before.device[1 - st.last.slot]
          /\ st.stage.local = finishParams(st.before, st.last.slot, st.last.value).local
    /\ st.last.op = "set" => st.stage.device = st.before.device

(* update(1) after a setParam and an update(0): the slots differ, and      *)
(* _finishParams changed a private field that slot 1 now holds.            *)
C36_Witness ==
    /\ st.last.op = "update"
    /\ <<"_", "d">> \in st.stage.params
    /\ st.last.slot = 1
    /\ st.stage.device[0] # st.stage.device[1]
    /\ st.stage.device[0] = st.before.device[0]
    /\ st.before.local # st.stage.local
    /\ st.stage.device[1][<<"_", "d">>] = 2

----------------------------------------------------------------------------
(* C37: outside its process callback the batchesRemaining of a scheduled   *)
(* task is the number of its batches waiting in the wrapped scheduler; it  *)
(* is never negative, and a task reported finished has no batch left to    *)
(* be processed.                                                           *)
C37_RemainingIsOutstanding ==
    \A t \in DynTasks :
        /\ dts.task[t].remaining >= 0
        /\ (issued(t) /\ dts.proc.task # t) => dts.task[t].remaining = queued(t)
        /\ dts.task[t].reported =>
              queued(t) = 0 /\ dts.task[t].remaining = 0 /\ dts.task[t].finished

(* A task that grew by a batch, with one batch waiting and one processed. *)
C37_Witness ==
    \E t \in DynTasks :
        /\ issued(t)
        /\ dts.proc.task # t
        /\ dts.task[t].returned >= 1
        /\ dts.task[t].processed >= 2
        /\ queued(t) = 1
        /\ \E u \in DynTasks : dts.task[u].reported

(* C38: a task returned by waitNext is finished, with batchesRemaining 0,  *)
(* when it is returned, and every scheduled task is put on the result      *)
(* queue exactly once: never twice, and once when nothing is left to run.  *)
placed(t) ==
    Cardinality({i \in 1..Len(dts.results) : dts.results[i] = t})
        + Cardinality({i \in 1..Len(dts.taken) : dts.taken[i].task = t})

nothingLeft ==
    /\ dts.user.pc \in {"out", "waited"}
    /\ dts.queue = <<>>
    /\ dts.proc.pc = "idle"

C38_ResultQueueExactlyOnce ==
    /\ \A i \in 1..Len(dts.taken) :
          dts.taken[i].finished /\ dts.taken[i].remaining = 0
    /\ \A t \in DynTasks : placed(t) <= 1
    /\ nothingLeft => \A t \in scheduledTasks : placed(t) = 1

----------------------------------------------------------------------------
(* DynamicTaskScheduler._schedule called from the user thread and from the *)
(* process worker thread (inside its callback): the _schedulerLock around  *)
(* PipelineScheduler.schedule, whose statements on _totalTasks and on the  *)
(* worker targets are reads followed by writes.  Each worker's loop takes  *)
(* its own _suspendLock for the locked target check; the process worker's  *)
(* loop is the process thread itself, outside the callback.                *)
MaxIndex == 4
LockThreads == {"user", "process"}
LockWorkers == {"update", "process"}
CallBatches == 0..2

LockInit ==
    lk = [schedulerLock |-> "free", totalTasks |-> 0,
          target |-> [w \in LockWorkers |-> 0],
          suspendLock |-> [w \in LockWorkers |-> "free"],
          indices |-> <<>>, requested |-> 0,
          th |-> [t \in LockThreads |->
                     [pc |-> "out", left |-> 0, n |-> 0, r |-> 0,
                      w |-> "update"]]]

InitLock ==
    /\ SchedulerIdle
    /\ LockInit
    /\ cwt = Absent
    /\ dts = Absent
    /\ pl = Absent
    /\ sq = Absent
    /\ st = Absent

lockOnly == UNCHANGED <<schedulerVars, cwt, dts, pl, sq, st>>

(* _schedule(task, nBatches) entered by thread t *)
LkCall(t, nBatches) ==
    /\ lk.th[t].pc = "out"
    /\ t = "process" => lk.suspendLock["process"] # "loop"
    /\ lk.requested + nBatches <= MaxIndex
    /\ lk' = [lk EXCEPT !.requested = @ + nBatches,
                        !.th[t] = [pc |-> "acquire", left |-> nBatches,
                                   n |-> 0, r |-> 0, w |-> "update"]]
    /\ lockOnly

(* "with self._schedulerLock" may be entered *)
mayEnter_NoLock(lock) == TRUE
mayEnter(lock) == lock = "free"

LkAcquire(t) ==
    /\ lk.th[t].pc = "acquire"
    /\ mayEnter(lk.schedulerLock)
    /\ lk' = [lk EXCEPT !.schedulerLock = t, !.th[t].pc = "loop"]
    /\ lockOnly

(* schedule: the next batch takes the index _totalTasks holds *)
LkReadTotal(t) ==
    /\ lk.th[t].pc = "loop"
    /\ lk.th[t].left > 0
    /\ lk' = [lk EXCEPT !.th[t].r = lk.totalTasks, !.th[t].pc = "write"]
    /\ lockOnly

(* schedule: "n += 1; self._totalTasks += 1" written back *)
LkWriteTotal(t) ==
    /\ lk.th[t].pc = "write"
    /\ lk' = [lk EXCEPT !.totalTasks = nextTotal(lk.th[t].r),
                        !.indices = Append(@, lk.th[t].r),
                        !.th[t].left = @ - 1,
                        !.th[t].n = @ + 1,
                        !.th[t].pc = "loop"]
    /\ lockOnly

(* schedule: the batches are through; return (0, None), or Submit and go   *)
(* on to run(n) of the update worker.                                      *)
LkLoopEnd(t) ==
    /\ lk.th[t].pc = "loop"
    /\ lk.th[t].left = 0
    /\ lk' = [lk EXCEPT !.th[t].pc = IF lk.th[t].n = 0 THEN "release" ELSE "read",
                        !.th[t].w = "update"]
    /\ lockOnly

(* run: "self._target += n" reads the target ... *)
LkRunRead(t) ==
    /\ lk.th[t].pc = "read"
    /\ lk' = [lk EXCEPT !.th[t].r = lk.target[lk.th[t].w], !.th[t].pc = "add"]
    /\ lockOnly

(* ... and writes it back *)
LkRunAdd(t) ==
    /\ lk.th[t].pc = "add"
    /\ lk' = [lk EXCEPT !.target[lk.th[t].w] = lk.th[t].r + lk.th[t].n,
                        !.th[t].pc = "lock"]
    /\ lockOnly

(* run: "with self._suspendLock" entered *)
LkRunLock(t) ==
    /\ lk.th[t].pc = "lock"
    /\ lk.suspendLock[lk.th[t].w] = "free"
    /\ lk' = [lk EXCEPT !.suspendLock[lk.th[t].w] = t, !.th[t].pc = "unlock"]
    /\ lockOnly

(* run: the lock left; the process worker's run(n) follows the update      *)
(* worker's, then schedule returns.                                        *)
LkRunUnlock(t) ==
    /\ lk.th[t].pc = "unlock"
    /\ lk' = [lk EXCEPT !.suspendLock[lk.th[t].w] = "free",
                        !.th[t].pc = IF lk.th[t].w = "update" THEN "read"
                                     ELSE "release",
                        !.th[t].w = "process"]
    /\ lockOnly

(* _schedule: the "with self._schedulerLock" block left *)
LkRelease(t) ==
    /\ lk.th[t].pc = "release"
    /\ lk' = [lk EXCEPT !.schedulerLock = "free", !.th[t].pc = "out"]
    /\ lockOnly

(* The loop of worker w enters "with self._suspendLock" for its locked     *)
(* check; the process worker's loop is not inside its callback then.       *)
LkWorkerLock(w) ==
    /\ lk.suspendLock[w] = "free"
    /\ w = "process" => lk.th["process"].pc = "out"
    /\ lk' = [lk EXCEPT !.suspendLock[w] = "loop"]
    /\ lockOnly

LkWorkerUnlock(w) ==
    /\ lk.suspendLock[w] = "loop"
    /\ lk' = [lk EXCEPT !.suspendLock[w] = "free"]
    /\ lockOnly

NextLock ==
    \/ \E t \in LockThreads, nBatches \in CallBatches : LkCall(t, nBatches)
    \/ \E t \in LockThreads : LkAcquire(t)
    \/ \E t \in LockThreads : LkReadTotal(t)
    \/ \E t \in LockThreads : LkWriteTotal(t)
    \/ \E t \in LockThreads : LkLoopEnd(t)
    \/ \E t \in LockThreads : LkRunRead(t)
    \/ \E t \in LockThreads : LkRunAdd(t)
    \/ \E t \in LockThreads : LkRunLock(t)
    \/ \E t \in LockThreads : LkRunUnlock(t)
    \/ \E t \in LockThreads : LkRelease(t)
    \/ \E w \in LockWorkers : LkWorkerLock(w)
    \/ \E w \in LockWorkers : LkWorkerUnlock(w)

LockSpec == InitLock /\ [][NextLock]_vars

(* Every thread inside _schedule runs on, and a worker loop leaves its     *)
(* locked check.  A thread waiting for a lock that is released again and   *)
(* again gets it: a worker loop takes its lock once and then suspends,     *)
(* and the other thread comes back only with further batches.              *)
LockFairness ==
    /\ \A t \in LockThreads :
          /\ SF_vars(LkAcquire(t))
          /\ WF_vars(LkReadTotal(t))
          /\ WF_vars(LkWriteTotal(t))
          /\ WF_vars(LkLoopEnd(t))
          /\ WF_vars(LkRunRead(t))
          /\ WF_vars(LkRunAdd(t))
          /\ SF_vars(LkRunLock(t))
          /\ WF_vars(LkRunUnlock(t))
          /\ WF_vars(LkRelease(t))
    /\ \A w \in LockWorkers : WF_vars(LkWorkerUnlock(w))

LockFairSpec == InitLock /\ [][NextLock]_vars /\ LockFairness

(* C39: the calls of schedule from the user thread and from the process    *)
(* thread never overlap; the batches get the indices 0, 1, 2, ... each     *)
(* once; with no call under way both worker targets equal the number of    *)
(* batches scheduled; and every call of _schedule returns.                 *)
inSchedule(t) == lk.th[t].pc \notin {"out", "acquire"}

C39_ScheduleSerialized ==
    /\ [](~(inSchedule("user") /\ inSchedule("process")))
    /\ [](\A i \in 1..Len(lk.indices) : lk.indices[i] = i - 1)
    /\ []((\A t \in LockThreads : ~inSchedule(t)) =>
             /\ lk.totalTasks = Len(lk.indices)
             /\ \A w \in LockWorkers : lk.target[w] = lk.totalTasks)
    /\ \A t \in LockThreads : (lk.th[t].pc # "out") ~> (lk.th[t].pc = "out")

(* The process thread is inside schedule, at the process worker's suspend  *)
(* lock in run(n), while the user thread waits at the scheduler lock with  *)
(* two batches; two batches are scheduled so far.                          *)
C39_Witness ==
    /\ lk.schedulerLock = "process"
    /\ lk.th["process"].pc = "lock"
    /\ lk.th["process"].w = "process"
    /\ lk.th["user"].pc = "acquire"
    /\ lk.th["user"].left = 2
    /\ lk.totalTasks = 2
    /\ lk.target["update"] = 2
    /\ lk.target["process"] = 2

============================================================================
